---------------------------- MODULE Spec2Model ----------------------------
(***************************************************************************)
(* A model of src/scanner.py, the Polymarket near-certain scanner: the     *)
(* stages of main() as actions over the collections main() passes from one *)
(* stage to the next.  Every action is one whole function call.            *)
(*                                                                         *)
(* Conventions.                                                            *)
(*  - A Python exception that leaves a stage sets pc to "raised" and       *)
(*    records its class in raised; the stage returns nothing.              *)
(*  - Prices are fixed-point: the float 1.0 is PriceScale units.  With     *)
(*    PriceScale = 4 every modelled price is a dyadic float, on which      *)
(*    Python's float arithmetic (1 - threshold, 1 - yes_price) is exact.   *)
(*  - Instants are integer ticks, TicksPerHour to the hour.                *)
(*  - Text that is searched is a tuple of one-character strings.           *)
(*  - Python's None is the empty tuple where a value is optional.          *)
(***************************************************************************)
EXTENDS Integers, Sequences, FiniteSets

VARIABLES
    pc,                   \* position in main(): the stage about to run
    raised,               \* the exception that ended the run: its class and the stage it left
    exclusion_tags,       \* main: exclusion_tags (set of the mapping's values)
    markets,              \* main: markets
    after_tags,           \* main: after_tags
    excluded_by_tags,     \* main: excluded_by_tags
    after_keywords,       \* main: after_keywords
    excluded_by_keywords, \* main: excluded_by_keywords
    threshold,            \* threshold argument of stages 4.3 and 4.4
    final_markets,        \* main: final_markets (meeting_threshold)
    below_threshold,      \* main: below_threshold
    flattened_rows,       \* main: flattened_rows
    window_hours,         \* window_hours argument of apply_time_window
    now,                  \* the instant apply_time_window samples
    rows_in_window,       \* main: rows_in_window
    rows_outside,         \* main: rows_outside
    min_date,             \* main: min_date
    max_date,             \* main: max_date
    sorted_rows,          \* export_to_xlsx: sorted_rows
    sheet,                \* the data rows export_to_xlsx appended to the sheet
    max_markets,          \* fetch_all_markets: the max_markets argument
    offset,               \* fetch_all_markets: offset
    all_markets,          \* fetch_all_markets: all_markets
    requests,             \* the offsets of the requests sent so far, in order
    pages                 \* the responses received so far, in order

vars == <<pc, raised, exclusion_tags, markets, after_tags, excluded_by_tags,
          after_keywords, excluded_by_keywords, threshold, final_markets,
          below_threshold, flattened_rows, window_hours, now, rows_in_window,
          rows_outside, min_date, max_date, sorted_rows, sheet,
          max_markets, offset, all_markets, requests, pages>>

\* the state of fetch_all_markets and of its exchange with the data source
fetchVars == <<max_markets, offset, all_markets, requests, pages>>

(***************************************************************************)
(* Bounds of the model.                                                    *)
(***************************************************************************)
PriceScale == 4
MaxOutcomes == 2
TicksPerHour == 2
MaxTick == 3
MaxWindowHours == 2
MaxRows == 3
MaxTags == 2

(***************************************************************************)
(* Generic helpers.                                                        *)
(***************************************************************************)
None == <<>>

Some(v) == <<v>>

SeqsUpTo(S, n) == UNION {[1..k -> S] : k \in 0..n}

Raised(e, stage) == [exc |-> e, stage |-> stage]

NotRaised == Raised("none", "none")

Min2(a, b) == IF a <= b THEN a ELSE b

\* fetch_all_markets is not part of the call: its variables at rest
NoFetch ==
    /\ max_markets = None
    /\ offset = 0
    /\ all_markets = <<>>
    /\ requests = <<>>
    /\ pages = <<>>

(***************************************************************************)
(* Listings.  A listing is the market dict of the Gamma API; each field    *)
(* that a stage decodes is kept in its transmitted form:                   *)
(*   outcomes, outcomePrices: kind "absent" (no key), "null" (None),       *)
(*     "malformed" (text that is not JSON), "scalar" (text that decodes to *)
(*     a number) or "array" (text that decodes to the array elems);        *)
(*   a price element: k "num" (a numeric string, v its value), "bad" (a    *)
(*     non-numeric string) or "null" (JSON null).                          *)
(***************************************************************************)
FieldKinds == {"absent", "null", "malformed", "scalar", "array"}

OutcomeNames == {"Yes", "No", "A"}

PriceElems ==
    {[k |-> "num", v |-> n] : n \in 0..PriceScale}
        \cup {[k |-> "bad", v |-> 0], [k |-> "null", v |-> 0]}

NonArrayFields == {[kind |-> kd, elems |-> <<>>] : kd \in FieldKinds \ {"array"}}

OutcomesFields ==
    NonArrayFields
        \cup {[kind |-> "array", elems |-> e] : e \in SeqsUpTo(OutcomeNames, MaxOutcomes)}

PricesFields ==
    NonArrayFields
        \cup {[kind |-> "array", elems |-> e] : e \in SeqsUpTo(PriceElems, MaxOutcomes)}

Thresholds == 1..PriceScale

(***************************************************************************)
(* apply_price_threshold (scanner.py 199-264).                             *)
(***************************************************************************)
\* market.get(key, '[]') followed by json.loads: the decoded value, or the
\* exception json.loads raises (TypeError on None, JSONDecodeError on text
\* that is not JSON).  A missing key decodes the default '[]'.
JsonLoads(field) ==
    CASE field.kind = "absent"    -> [exc |-> "none", isArray |-> TRUE, elems |-> <<>>]
      [] field.kind = "null"      -> [exc |-> "TypeError", isArray |-> FALSE, elems |-> <<>>]
      [] field.kind = "malformed" -> [exc |-> "JSONDecodeError", isArray |-> FALSE, elems |-> <<>>]
      [] field.kind = "scalar"    -> [exc |-> "none", isArray |-> FALSE, elems |-> <<>>]
      [] field.kind = "array"     -> [exc |-> "none", isArray |-> TRUE, elems |-> field.elems]

RECURSIVE FloatEach(_)
\* [float(p) for p in prices] over an array: the floats, or the exception of
\* the first element float() rejects (ValueError on a non-numeric string,
\* TypeError on None).
FloatEach(elems) ==
    IF elems = <<>> THEN [exc |-> "none", vals |-> <<>>]
    ELSE LET p == Head(elems) IN
         IF p.k = "bad" THEN [exc |-> "ValueError", vals |-> <<>>]
         ELSE IF p.k = "null" THEN [exc |-> "TypeError", vals |-> <<>>]
         ELSE LET rest == FloatEach(Tail(elems)) IN
              IF rest.exc # "none" THEN rest
              ELSE [exc |-> "none", vals |-> <<p.v>> \o rest.vals]

\* the comprehension of line 229 over the decoded value: a number is not iterable
FloatAll(decoded) ==
    IF decoded.isArray THEN FloatEach(decoded.elems)
    ELSE [exc |-> "TypeError", vals |-> <<>>]

\* the exception classes the handler of line 259 catches
CaughtByThreshold == {"JSONDecodeError", "ValueError", "IndexError"}

RECURSIVE MaxOf(_)
\* max(prices) if prices else 0.0
MaxOf(prices) ==
    IF prices = <<>> THEN 0
    ELSE IF Len(prices) = 1 THEN prices[1]
    ELSE LET r == MaxOf(Tail(prices)) IN IF Head(prices) >= r THEN Head(prices) ELSE r

BinaryQualifiesStrict(yes_price, T) ==
    yes_price > T \/ yes_price < PriceScale - T

\* line 240
BinaryQualifies(yes_price, T) ==
    yes_price >= T \/ yes_price <= PriceScale - T

\* lines 249-251
MultiQualifies(prices, T) == MaxOf(prices) >= T

Verdict(v, e, m, b, y, n, o, p) ==
    [verdict |-> v, exc |-> e,
     ann |-> [market |-> m, is_binary |-> b, yes_price |-> y, no_price |-> n,
              outcomes |-> o, prices |-> p]]

NoOutcomes == [isArray |-> TRUE, elems |-> <<>>]

\* one iteration of the loop of lines 219-262: "meet" with the annotated
\* market, "below", or "raise" with an exception the handler does not catch
ClassifyMarket(m, T) ==
    LET Below == Verdict("below", "none", m, FALSE, 0, 0, NoOutcomes, <<>>)
        Fail(e) == IF e \in CaughtByThreshold THEN Below
                   ELSE Verdict("raise", e, m, FALSE, 0, 0, NoOutcomes, <<>>)
        o == JsonLoads(m.outcomes)
        p == JsonLoads(m.outcomePrices)
    IN  IF o.exc # "none" THEN Fail(o.exc)
        ELSE IF p.exc # "none" THEN Fail(p.exc)
        ELSE LET f == FloatAll(p) IN
             IF f.exc # "none" THEN Fail(f.exc)
             ELSE LET prices == f.vals
                      is_binary == o.isArray /\ o.elems = <<"Yes", "No">>
                  IN  IF is_binary
                      THEN IF prices = <<>> THEN Fail("IndexError")
                           ELSE LET yes_price == prices[1] IN
                                IF BinaryQualifies(yes_price, T)
                                THEN Verdict("meet", "none", m, TRUE, yes_price,
                                             IF Len(prices) > 1 THEN prices[2]
                                             ELSE PriceScale - yes_price,
                                             NoOutcomes, <<>>)
                                ELSE Below
                      ELSE IF MultiQualifies(prices, T)
                           THEN Verdict("meet", "none", m, FALSE, 0, 0,
                                        [isArray |-> o.isArray, elems |-> o.elems], prices)
                           ELSE Below

RECURSIVE FirstRaise(_, _)
\* the exception that ends the loop, or "none" when every iteration completes
FirstRaise(ms, T) ==
    IF ms = <<>> THEN "none"
    ELSE LET c == ClassifyMarket(Head(ms), T) IN
         IF c.verdict = "raise" THEN c.exc ELSE FirstRaise(Tail(ms), T)

RECURSIVE MeetingThreshold(_, _)
MeetingThreshold(ms, T) ==
    IF ms = <<>> THEN <<>>
    ELSE LET c == ClassifyMarket(Head(ms), T) IN
         (IF c.verdict = "meet" THEN <<c.ann>> ELSE <<>>) \o MeetingThreshold(Tail(ms), T)

RECURSIVE BelowThreshold(_, _)
BelowThreshold(ms, T) ==
    IF ms = <<>> THEN <<>>
    ELSE LET c == ClassifyMarket(Head(ms), T) IN
         (IF c.verdict = "below" THEN <<Head(ms)>> ELSE <<>>) \o BelowThreshold(Tail(ms), T)

\* main, lines 556-560: final_markets, below_threshold =
\*     apply_price_threshold(after_keywords, threshold)
ApplyPriceThreshold ==
    /\ pc = "threshold"
    /\ LET e == FirstRaise(after_keywords, threshold) IN
       IF e # "none"
       THEN /\ pc' = "raised"
            /\ raised' = Raised(e, "apply_price_threshold")
            /\ UNCHANGED <<final_markets, below_threshold>>
       ELSE /\ pc' = "flatten"
            /\ final_markets' = MeetingThreshold(after_keywords, threshold)
            /\ below_threshold' = BelowThreshold(after_keywords, threshold)
            /\ UNCHANGED raised
    /\ UNCHANGED fetchVars
    /\ UNCHANGED <<exclusion_tags, markets, after_tags, excluded_by_tags,
                   after_keywords, excluded_by_keywords, threshold, flattened_rows,
                   window_hours, now, rows_in_window, rows_outside, min_date,
                   max_date, sorted_rows, sheet>>


(***************************************************************************)
(* flatten_multi_outcome_markets (scanner.py 267-331).                     *)
(***************************************************************************)
Row(m, o, y, n, side, b) ==
    [market |-> m, outcome |-> o, yes_price |-> y, no_price |-> n,
     certainty_side |-> side, is_binary |-> b]

\* the test of line 321, on the outcome's own price
OutcomeClearsStrict(price, T) == price > T

OutcomeClears(price, T) == price >= T

\* the test of line 295
YesSide(yes_price, T) == yes_price >= T

\* lines 290-314: the row of a market annotated as binary
FlattenBinary(a, T) ==
    IF YesSide(a.yes_price, T)
    THEN <<Row(a.market, "YES", a.yes_price, Some(a.no_price), "YES", TRUE)>>
    ELSE IF a.yes_price <= PriceScale - T
    THEN <<Row(a.market, "NO", a.yes_price, Some(a.no_price), "NO", TRUE)>>
    ELSE <<>>

RECURSIVE ZipRows(_, _, _, _)
\* lines 320-329: zip(outcomes, prices) stops at the shorter of the two
ZipRows(m, outcomes, prices, T) ==
    IF outcomes = <<>> \/ prices = <<>> THEN <<>>
    ELSE (IF OutcomeClears(Head(prices), T)
          THEN <<Row(m, Head(outcomes), Head(prices), None, Head(outcomes), FALSE)>>
          ELSE <<>>) \o ZipRows(m, Tail(outcomes), Tail(prices), T)

\* one iteration of the loop of lines 287-329: the rows of one market, or
\* the TypeError of zip() over an _outcomes value that is not iterable
FlattenMarket(a, T) ==
    IF a.is_binary THEN [exc |-> "none", rows |-> FlattenBinary(a, T)]
    ELSE IF ~a.outcomes.isArray THEN [exc |-> "TypeError", rows |-> <<>>]
    ELSE [exc |-> "none", rows |-> ZipRows(a.market, a.outcomes.elems, a.prices, T)]

RECURSIVE FlattenRaise(_, _)
FlattenRaise(as, T) ==
    IF as = <<>> THEN "none"
    ELSE LET r == FlattenMarket(Head(as), T) IN
         IF r.exc # "none" THEN r.exc ELSE FlattenRaise(Tail(as), T)

RECURSIVE FlattenRows(_, _)
FlattenRows(as, T) ==
    IF as = <<>> THEN <<>>
    ELSE FlattenMarket(Head(as), T).rows \o FlattenRows(Tail(as), T)

\* main, lines 562-565: flattened_rows =
\*     flatten_multi_outcome_markets(final_markets, threshold)
FlattenMultiOutcomeMarkets ==
    /\ pc = "flatten"
    /\ LET e == FlattenRaise(final_markets, threshold) IN
       IF e # "none"
       THEN /\ pc' = "raised"
            /\ raised' = Raised(e, "flatten_multi_outcome_markets")
            /\ UNCHANGED flattened_rows
       ELSE /\ pc' = "window"
            /\ flattened_rows' = FlattenRows(final_markets, threshold)
            /\ UNCHANGED raised
    /\ UNCHANGED fetchVars
    /\ UNCHANGED <<exclusion_tags, markets, after_tags, excluded_by_tags,
                   after_keywords, excluded_by_keywords, threshold, final_markets,
                   below_threshold, window_hours, now, rows_in_window,
                   rows_outside, min_date, max_date, sorted_rows, sheet>>

(***************************************************************************)
(* The listing record, and the batches the price stages are checked on.    *)
(***************************************************************************)
AbsentField == [kind |-> "absent", elems |-> <<>>]

AbsentDate == [kind |-> "absent", local |-> 0, offset |-> 0]

AbsentEvent == [kind |-> "absent", title |-> <<>>]

\* a market dict with only its identifier set
BareMarket(i) ==
    [id |-> i, tags |-> AbsentField, question |-> <<>>, event |-> AbsentEvent,
     category |-> <<>>, subcategory |-> <<>>, outcomes |-> AbsentField,
     outcomePrices |-> AbsentField, endDate |-> AbsentDate, slug |-> ""]

PricedMarket(i, o, p) == [BareMarket(i) EXCEPT !.outcomes = o, !.outcomePrices = p]

Num(n) == [k |-> "num", v |-> n]

Arr(e) == [kind |-> "array", elems |-> e]

\* representative listings, of which the batches of two are made: two
\* outcomes at the top price, a binary listing near-certain NO, a listing
\* over the threshold only beyond its last outcome name, a malformed price
\* field, and a null price field
PriceContext ==
    { [o |-> Arr(<<"A", "No">>), p |-> Arr(<<Num(PriceScale), Num(PriceScale)>>)],
      [o |-> Arr(<<"Yes", "No">>), p |-> Arr(<<Num(0), Num(PriceScale)>>)],
      [o |-> Arr(<<"A">>), p |-> Arr(<<Num(0), Num(PriceScale)>>)],
      [o |-> Arr(<<"A">>), p |-> [kind |-> "malformed", elems |-> <<>>]],
      [o |-> Arr(<<"A">>), p |-> [kind |-> "null", elems |-> <<>>]] }

\* the empty batch, every single listing, and the pairs of representatives
PriceBatches ==
    {<<>>}
      \cup {<<PricedMarket(1, o, p)>> : o \in OutcomesFields, p \in PricesFields}
      \cup {<<PricedMarket(1, c.o, c.p), PricedMarket(2, d.o, d.p)>> :
                c \in PriceContext, d \in PriceContext}

\* a call of apply_price_threshold on a batch, as main makes it
InitPrice ==
    /\ pc = "threshold"
    /\ raised = NotRaised
    /\ exclusion_tags = {}
    /\ markets = <<>>
    /\ after_tags = <<>>
    /\ excluded_by_tags = <<>>
    /\ after_keywords \in PriceBatches
    /\ excluded_by_keywords = <<>>
    /\ threshold \in Thresholds
    /\ final_markets = <<>>
    /\ below_threshold = <<>>
    /\ flattened_rows = <<>>
    /\ window_hours = MaxWindowHours
    /\ now = 0
    /\ rows_in_window = <<>>
    /\ rows_outside = <<>>
    /\ min_date = None
    /\ max_date = None
    /\ sorted_rows = <<>>
    /\ sheet = <<>>
    /\ NoFetch

NextPrice == ApplyPriceThreshold \/ FlattenMultiOutcomeMarkets

SpecPrice == InitPrice /\ [][NextPrice]_vars


(***************************************************************************)
(* Properties of the price stages, checked under SpecPrice.  They are      *)
(* stated on the listings as transmitted, not through the operators above. *)
(***************************************************************************)
\* apply_price_threshold has returned its two partitions
Classified == pc \in {"flatten", "window"}

\* flatten_multi_outcome_markets has returned its rows
Flattened == pc = "window"

\* the array a field transmits; a missing key transmits the empty array
IsArrayField(f) == f.kind \in {"absent", "array"}

IsPriceVector(f) == IsArrayField(f) /\ \A k \in DOMAIN f.elems : f.elems[k].k = "num"

PriceAt(m, k) == m.outcomePrices.elems[k].v

NamesOf(m) == m.outcomes.elems

NPrices(m) == Len(m.outcomePrices.elems)

Parsed(m) == IsArrayField(m.outcomes) /\ IsPriceVector(m.outcomePrices)

IsBinaryListing(m) == Parsed(m) /\ NamesOf(m) = <<"Yes", "No">> /\ NPrices(m) >= 1

IsMultiListing(m) == Parsed(m) /\ NamesOf(m) # <<"Yes", "No">>

Qualifying(m) == \E i \in DOMAIN final_markets : final_markets[i].market.id = m.id

NonQualifying(m) == \E i \in DOMAIN below_threshold : below_threshold[i].id = m.id

\* the positions in flattened_rows of the rows of listing m, ascending
RowIdx(m) == {j \in DOMAIN flattened_rows : flattened_rows[j].market.id = m.id}

Listings == {after_keywords[i] : i \in DOMAIN after_keywords}

\* C1: a binary listing with YES price p qualifies iff p >= T or p <= 1 - T,
\* and is then flattened to exactly one row, YES when p >= T and NO otherwise.
C1_BinaryThreshold ==
    \A m \in Listings : IsBinaryListing(m) =>
        LET p == PriceAt(m, 1)
            near == p >= threshold \/ p <= PriceScale - threshold
            side == IF p >= threshold THEN "YES" ELSE "NO"
        IN  /\ Classified => /\ Qualifying(m) <=> near
                             /\ NonQualifying(m) <=> ~near
            /\ Flattened =>
                 IF near
                 THEN /\ Cardinality(RowIdx(m)) = 1
                      /\ \A j \in RowIdx(m) :
                            /\ flattened_rows[j].outcome = side
                            /\ flattened_rows[j].certainty_side = side
                            /\ flattened_rows[j].is_binary
                            /\ flattened_rows[j].yes_price = p
                 ELSE RowIdx(m) = {}

\* C1 witness: a flattened batch holding a binary listing at the inclusive
\* lower bound p = 1 - T < T, reported as a NO row.
C1_Witness ==
    /\ Flattened
    /\ \E m \in Listings :
          /\ IsBinaryListing(m)
          /\ PriceAt(m, 1) = PriceScale - threshold
          /\ PriceAt(m, 1) < threshold
          /\ \E j \in RowIdx(m) : flattened_rows[j].certainty_side = "NO"

\* the indices of the outcomes of m that have a price of their own >= T
ClearIdx(m) ==
    {k \in 1..Min2(Len(NamesOf(m)), NPrices(m)) : PriceAt(m, k) >= threshold}

\* C2: a multi-outcome listing qualifies iff max(prices) >= T, and is
\* flattened to one row per outcome whose own price is >= T, in outcome
\* order; rows of different listings follow input listing order; each row
\* has the outcome's label as certainty side and no complementary price.
C2_MultiThreshold ==
    /\ \A m \in Listings : IsMultiListing(m) =>
          /\ Classified =>
               (Qualifying(m) <=> \E k \in 1..NPrices(m) : PriceAt(m, k) >= threshold)
          /\ Flattened =>
               /\ Cardinality(RowIdx(m)) = Cardinality(ClearIdx(m))
               /\ \A j \in RowIdx(m) :
                     LET r == flattened_rows[j]
                         \* the outcome this row stands for: the n-th clearing
                         \* outcome, n the row's rank among the listing's rows
                         n == Cardinality({i \in RowIdx(m) : i <= j})
                         k == CHOOSE k \in ClearIdx(m) :
                                 Cardinality({i \in ClearIdx(m) : i <= k}) = n
                     IN  /\ r.outcome = NamesOf(m)[k]
                         /\ r.certainty_side = NamesOf(m)[k]
                         /\ r.yes_price = PriceAt(m, k)
                         /\ r.no_price = None
                         /\ ~r.is_binary
    /\ Flattened =>
          \A i, j \in DOMAIN flattened_rows :
              i < j => flattened_rows[i].market.id <= flattened_rows[j].market.id

\* C2 witness: a flattened batch in which a multi-outcome listing has two
\* outcomes at or above T (a tie kept) and follows another listing's row.
C2_Witness ==
    /\ Flattened
    /\ \E m \in Listings :
          /\ IsMultiListing(m)
          /\ Cardinality(ClearIdx(m)) = 2
          /\ Cardinality(RowIdx(m)) = 2
          /\ \E k \in ClearIdx(m) : PriceAt(m, k) = threshold
          /\ \E j \in DOMAIN flattened_rows : flattened_rows[j].market.id < m.id

\* C3: a listing contributes at least one row iff apply_price_threshold
\* classified it as qualifying.
C3_RowIffQualifying ==
    Flattened => \A m \in Listings : (RowIdx(m) # {}) <=> Qualifying(m)

\* C4: a listing whose outcome-name vector and price vector have different
\* lengths is routed to the non-qualifying partition.
C4_MismatchBelow ==
    Classified =>
        \A m \in Listings :
            (Parsed(m) /\ Len(NamesOf(m)) # NPrices(m)) => NonQualifying(m)

\* a field of m fails to parse, in one of the ways C5 lists
FailsToParse(m) ==
    \/ m.outcomes.kind \in {"null", "malformed", "scalar"}
    \/ m.outcomePrices.kind \in {"null", "malformed", "scalar"}
    \/ \E k \in DOMAIN m.outcomePrices.elems : m.outcomePrices.elems[k].k # "num"
    \/ (NamesOf(m) = <<"Yes", "No">> /\ m.outcomePrices.elems = <<>>)

\* C5: apply_price_threshold never raises, and every listing with a field
\* that fails to parse is in the non-qualifying partition it returns.
C5_NeverRaises ==
    /\ raised.stage # "apply_price_threshold"
    /\ Classified => \A m \in Listings : FailsToParse(m) => NonQualifying(m)

(***************************************************************************)
(* apply_time_window (scanner.py 334-394).                                 *)
(*                                                                         *)
(* endDate as transmitted: kind "absent" (no key), "null" (None),          *)
(* "malformed" (text that is no ISO-8601 date), "naive" (a date-time with  *)
(* no UTC offset), "zulu" (a date-time with the suffix Z) or "aware" (a    *)
(* date-time with a numeric UTC offset).  local is the wall-clock reading  *)
(* in ticks, offset the UTC offset in hours.                               *)
(***************************************************************************)

UtcOffsets == {1}

Nows == {0, 1}

DateFields ==
    {[kind |-> kd, local |-> 0, offset |-> 0] : kd \in {"absent", "null", "malformed"}}
      \cup {[kind |-> "naive", local |-> 0, offset |-> 0]}
      \cup {[kind |-> "zulu", local |-> t, offset |-> 0] : t \in 0..MaxTick}
      \cup {[kind |-> "aware", local |-> t, offset |-> z] : t \in 0..MaxTick, z \in UtcOffsets}

\* line 362: end_date_str.replace('Z', '+00:00') then datetime.fromisoformat.
\* None has no replace (AttributeError); '' and malformed text are rejected
\* (ValueError); a date-time with no offset parses to a naive datetime.
ParseEndDate(d) ==
    CASE d.kind = "absent"    -> [exc |-> "ValueError", tz |-> FALSE, local |-> 0, offset |-> 0]
      [] d.kind = "null"      -> [exc |-> "AttributeError", tz |-> FALSE, local |-> 0, offset |-> 0]
      [] d.kind = "malformed" -> [exc |-> "ValueError", tz |-> FALSE, local |-> 0, offset |-> 0]
      [] d.kind = "naive"     -> [exc |-> "none", tz |-> FALSE, local |-> d.local, offset |-> 0]
      [] d.kind = "zulu"      -> [exc |-> "none", tz |-> TRUE, local |-> d.local, offset |-> 0]
      [] d.kind = "aware"     -> [exc |-> "none", tz |-> TRUE, local |-> d.local, offset |-> d.offset]

\* the instant an aware datetime denotes: what its comparisons compare
Instant(dt) == dt.local - dt.offset * TicksPerHour

\* the exception classes the handler of line 385 catches
CaughtByWindow == {"ValueError", "AttributeError"}

InWindowOpenEnd(t, E, window_end) == t <= E /\ E < window_end

\* line 366
InWindow(t, E, window_end) == t <= E /\ E <= window_end

\* line 374
MarketUrl(market_slug) ==
    IF market_slug # "" THEN <<"https://polymarket.com/market/", market_slug>> ELSE <<>>

\* one iteration of the loop of lines 354-388: "in" with the row and its
\* derived fields, "out", or "raise" (comparing a naive datetime with the
\* aware now is a TypeError, which the handler does not catch)
WindowRow(row, t, window_end) ==
    LET d == ParseEndDate(row.market.endDate)
        Out(parsed) == [verdict |-> "out", exc |-> "none", parsed |-> parsed,
                        date |-> [local |-> d.local, offset |-> d.offset]]
    IN  IF d.exc # "none"
        THEN IF d.exc \in CaughtByWindow THEN Out(FALSE)
             ELSE [verdict |-> "raise", exc |-> d.exc, parsed |-> FALSE,
                   date |-> [local |-> 0, offset |-> 0]]
        ELSE IF ~d.tz
        THEN [verdict |-> "raise", exc |-> "TypeError", parsed |-> TRUE,
              date |-> [local |-> d.local, offset |-> 0]]
        ELSE IF InWindow(t, Instant(d), window_end)
        THEN [verdict |-> "in", exc |-> "none", parsed |-> TRUE,
              date |-> [local |-> d.local, offset |-> d.offset]]
        ELSE Out(TRUE)

\* lines 377-379: the row with its derived fields
Derived(row, t) ==
    LET d == ParseEndDate(row.market.endDate) IN
    [market |-> row.market, outcome |-> row.outcome, yes_price |-> row.yes_price,
     no_price |-> row.no_price, certainty_side |-> row.certainty_side,
     is_binary |-> row.is_binary,
     resolve_datetime |-> [local |-> d.local, offset |-> d.offset],
     hours_remaining |-> Instant(d) - t,
     market_url |-> MarketUrl(row.market.slug)]

RECURSIVE WindowRaise(_, _, _)
WindowRaise(rows, t, window_end) ==
    IF rows = <<>> THEN "none"
    ELSE LET w == WindowRow(Head(rows), t, window_end) IN
         IF w.verdict = "raise" THEN w.exc ELSE WindowRaise(Tail(rows), t, window_end)

RECURSIVE RowsInWindow(_, _, _)
RowsInWindow(rows, t, window_end) ==
    IF rows = <<>> THEN <<>>
    ELSE (IF WindowRow(Head(rows), t, window_end).verdict = "in"
          THEN <<Derived(Head(rows), t)>> ELSE <<>>)
             \o RowsInWindow(Tail(rows), t, window_end)

RECURSIVE RowsOutside(_, _, _)
RowsOutside(rows, t, window_end) ==
    IF rows = <<>> THEN <<>>
    ELSE (IF WindowRow(Head(rows), t, window_end).verdict = "out"
          THEN <<Head(rows)>> ELSE <<>>)
             \o RowsOutside(Tail(rows), t, window_end)

RECURSIVE AllDates(_, _, _)
\* all_dates: every end_date that parsed, in row order
AllDates(rows, t, window_end) ==
    IF rows = <<>> THEN <<>>
    ELSE LET w == WindowRow(Head(rows), t, window_end) IN
         (IF w.parsed THEN <<w.date>> ELSE <<>>) \o AllDates(Tail(rows), t, window_end)

RECURSIVE MinDate(_)
\* min(all_dates) if all_dates else None: the first of the earliest
MinDate(dates) ==
    IF dates = <<>> THEN None
    ELSE LET rest == MinDate(Tail(dates)) IN
         IF rest = None \/ Instant(Head(dates)) <= Instant(rest[1])
         THEN Some(Head(dates)) ELSE rest

RECURSIVE MaxDate(_)
\* max(all_dates) if all_dates else None: the first of the latest
MaxDate(dates) ==
    IF dates = <<>> THEN None
    ELSE LET rest == MaxDate(Tail(dates)) IN
         IF rest = None \/ Instant(Head(dates)) >= Instant(rest[1])
         THEN Some(Head(dates)) ELSE rest

\* main, lines 576-580: rows_in_window, rows_outside, now, window_end,
\*     min_date, max_date = apply_time_window(flattened_rows, window_hours)
ApplyTimeWindow ==
    /\ pc = "window"
    /\ \E t \in Nows :
         LET window_end == t + window_hours * TicksPerHour
             e == WindowRaise(flattened_rows, t, window_end)
         IN  /\ now' = t
             /\ IF e # "none"
                THEN /\ pc' = "raised"
                     /\ raised' = Raised(e, "apply_time_window")
                     /\ UNCHANGED <<rows_in_window, rows_outside, min_date, max_date>>
                ELSE /\ pc' = "export"
                     /\ rows_in_window' = RowsInWindow(flattened_rows, t, window_end)
                     /\ rows_outside' = RowsOutside(flattened_rows, t, window_end)
                     /\ min_date' = MinDate(AllDates(flattened_rows, t, window_end))
                     /\ max_date' = MaxDate(AllDates(flattened_rows, t, window_end))
                     /\ UNCHANGED raised
    /\ UNCHANGED fetchVars
    /\ UNCHANGED <<exclusion_tags, markets, after_tags, excluded_by_tags,
                   after_keywords, excluded_by_keywords, threshold, final_markets,
                   below_threshold, flattened_rows, window_hours, sorted_rows, sheet>>

(***************************************************************************)
(* export_to_xlsx (scanner.py 397-525), and the branch of main that calls  *)
(* it (lines 582-602).  The sheet is modelled by its data rows; the Volume *)
(* and Liquidity cells, which copy fields no stage reads, are left out.    *)
(***************************************************************************)
\* the sort key of line 419: aware datetimes compare as instants
SortKey(r) == Instant(r.resolve_datetime)

RECURSIVE InsertRowBeforeTies(_, _)
InsertRowBeforeTies(r, s) ==
    IF s = <<>> THEN <<r>>
    ELSE IF SortKey(Head(s)) < SortKey(r)
         THEN <<Head(s)>> \o InsertRowBeforeTies(r, Tail(s))
         ELSE <<r>> \o s

RECURSIVE InsertRow(_, _)
\* r placed in the sorted s behind every row whose key is not greater
InsertRow(r, s) ==
    IF s = <<>> THEN <<r>>
    ELSE IF SortKey(Head(s)) <= SortKey(r)
         THEN <<Head(s)>> \o InsertRow(r, Tail(s))
         ELSE <<r>> \o s

RECURSIVE Sorted(_)
\* line 419: sorted(rows, key=...), a stable ascending sort
Sorted(rows) ==
    IF rows = <<>> THEN <<>>
    ELSE InsertRow(rows[Len(rows)], Sorted(SubSeq(rows, 1, Len(rows) - 1)))

\* lines 456-461: the event is a dict with a title, or a bare value
EventTitle(event) ==
    CASE event.kind = "dict"   -> event.title
      [] event.kind = "string" -> event.title
      [] OTHER                 -> <<>>

\* lines 512-521: a non-empty URL cell becomes a HYPERLINK formula
UrlCell(url) == IF url # <<>> THEN <<"=HYPERLINK", url, "open">> ELSE <<>>

\* lines 453-488: row_data
RowData(row) ==
    [Event_Title |-> EventTitle(row.market.event),
     Market_Question |-> row.market.question,
     Outcome |-> row.outcome,
     YES_Price |-> row.yes_price,
     NO_Price |-> row.no_price,
     Certainty_Side |-> row.certainty_side,
     Category |-> row.market.category,
     Subcategory |-> row.market.subcategory,
     Resolve_DateTime |-> <<row.resolve_datetime.local, "UTC">>,
     Hours_Remaining |-> row.hours_remaining,
     Market_URL |-> UrlCell(row.market_url),
     AI_Confidence |-> "",
     AI_Rationale |-> ""]

\* main, lines 583-597: export_to_xlsx(rows_in_window)
ExportToXlsx ==
    /\ pc = "export"
    /\ rows_in_window # <<>>
    /\ sorted_rows' = Sorted(rows_in_window)
    /\ sheet' = [j \in 1..Len(rows_in_window) |-> RowData(Sorted(rows_in_window)[j])]
    /\ pc' = "done"
    /\ UNCHANGED fetchVars
    /\ UNCHANGED <<raised, exclusion_tags, markets, after_tags, excluded_by_tags,
                   after_keywords, excluded_by_keywords, threshold, final_markets,
                   below_threshold, flattened_rows, window_hours, now,
                   rows_in_window, rows_outside, min_date, max_date>>

\* main, lines 598-602: no row in the window, no file
NoMarketsFound ==
    /\ pc = "export"
    /\ rows_in_window = <<>>
    /\ pc' = "nodata"
    /\ UNCHANGED fetchVars
    /\ UNCHANGED <<raised, exclusion_tags, markets, after_tags, excluded_by_tags,
                   after_keywords, excluded_by_keywords, threshold, final_markets,
                   below_threshold, flattened_rows, window_hours, now,
                   rows_in_window, rows_outside, min_date, max_date, sorted_rows,
                   sheet>>

(***************************************************************************)
(* The batches of rows the window and export stages are checked on: up to  *)
(* MaxRows rows, one per listing, over every transmitted endDate.  The     *)
(* first listing of a batch is transmitted without a slug.                 *)
(***************************************************************************)
DatedMarket(i, d) ==
    [BareMarket(i) EXCEPT !.endDate = d,
                          !.slug = IF i = 1 THEN "" ELSE "some-market"]

WindowBatches ==
    {[i \in DOMAIN ds |->
         Row(DatedMarket(i, ds[i]), "A", PriceScale, None, "A", FALSE)] :
       ds \in SeqsUpTo(DateFields, MaxRows)}

\* a call of apply_time_window on a batch of rows, as main makes it
InitWindow ==
    /\ pc = "window"
    /\ raised = NotRaised
    /\ exclusion_tags = {}
    /\ markets = <<>>
    /\ after_tags = <<>>
    /\ excluded_by_tags = <<>>
    /\ after_keywords = <<>>
    /\ excluded_by_keywords = <<>>
    /\ threshold = PriceScale
    /\ final_markets = <<>>
    /\ below_threshold = <<>>
    /\ flattened_rows \in WindowBatches
    /\ window_hours \in 1..MaxWindowHours
    /\ now = 0
    /\ rows_in_window = <<>>
    /\ rows_outside = <<>>
    /\ min_date = None
    /\ max_date = None
    /\ sorted_rows = <<>>
    /\ sheet = <<>>
    /\ NoFetch

NextWindow == ApplyTimeWindow \/ ExportToXlsx \/ NoMarketsFound

SpecWindow == InitWindow /\ [][NextWindow]_vars

(***************************************************************************)
(* Properties of the window and export stages, checked under SpecWindow.   *)
(***************************************************************************)
\* apply_time_window has returned
WindowReturned == pc \in {"export", "done", "nodata"}

\* the listing's endDate denotes an instant
HasInstant(row) == row.market.endDate.kind \in {"zulu", "aware"}

\* that instant, in ticks: the wall-clock reading less the UTC offset
InstantOf(row) ==
    row.market.endDate.local
        - (IF row.market.endDate.kind = "aware" THEN row.market.endDate.offset ELSE 0)
              * TicksPerHour

Retained(row) ==
    \E j \in DOMAIN rows_in_window : rows_in_window[j].market.id = row.market.id

Discarded(row) ==
    \E j \in DOMAIN rows_outside : rows_outside[j].market.id = row.market.id

InputRows == {flattened_rows[i] : i \in DOMAIN flattened_rows}

\* C6: a row with a parseable resolution instant E is retained iff
\* now <= E <= now + W hours, both bounds inclusive, for the one now of the
\* batch; a retained row carries E and E - now.
C6_WindowInclusive ==
    WindowReturned =>
        \A row \in InputRows : HasInstant(row) =>
            LET E == InstantOf(row)
                inside == now <= E /\ E <= now + window_hours * TicksPerHour
            IN  /\ Retained(row) <=> inside
                /\ Discarded(row) <=> ~inside
                /\ \A j \in DOMAIN rows_in_window :
                      rows_in_window[j].market.id = row.market.id =>
                          /\ Instant(rows_in_window[j].resolve_datetime) = E
                          /\ rows_in_window[j].hours_remaining = E - now

\* C6 witness: one batch with a row at E = now and a row at E = now + W,
\* both retained, and a row one tick after now + W, discarded.
C6_Witness ==
    /\ WindowReturned
    /\ \E a, b, c \in InputRows :
          /\ HasInstant(a) /\ InstantOf(a) = now /\ Retained(a)
          /\ HasInstant(b) /\ InstantOf(b) = now + window_hours * TicksPerHour
          /\ Retained(b)
          /\ HasInstant(c) /\ InstantOf(c) = now + window_hours * TicksPerHour + 1
          /\ Discarded(c)

\* the instants of the rows whose timestamp parses to a date-time
ParsedInstants ==
    {InstantOf(row) : row \in {r \in InputRows :
                                  r.market.endDate.kind \in {"naive", "zulu", "aware"}}}

\* C7: apply_time_window never raises; every input row is in exactly one
\* partition; a row whose timestamp is absent, null, malformed or without
\* a UTC offset is in the outside partition; the reported minimum and
\* maximum are those of all rows with a parseable timestamp.
C7_WindowNeverRaises ==
    /\ raised.stage # "apply_time_window"
    /\ WindowReturned =>
          /\ \A row \in InputRows :
                /\ Retained(row) <=> ~Discarded(row)
                /\ ~HasInstant(row) => Discarded(row)
          /\ Len(rows_in_window) + Len(rows_outside) = Len(flattened_rows)
          /\ IF ParsedInstants = {} THEN min_date = None /\ max_date = None
             ELSE /\ min_date # None /\ max_date # None
                  /\ \A t \in ParsedInstants :
                        Instant(min_date[1]) <= t /\ t <= Instant(max_date[1])
                  /\ Instant(min_date[1]) \in ParsedInstants
                  /\ Instant(max_date[1]) \in ParsedInstants

\* the permutations of 1..n
Perms(n) == {f \in [1..n -> 1..n] : \A i, j \in 1..n : i # j => f[i] # f[j]}

\* C10: the rows export_to_xlsx emits are a permutation of its input in
\* ascending order of resolution instant, rows of equal instant in their
\* input order; the sheet's data rows are those rows, in that order.
C10_StableSort ==
    pc = "done" =>
        LET n == Len(rows_in_window) IN
        /\ Len(sorted_rows) = n
        /\ Len(sheet) = n
        /\ \E f \in Perms(n) :
              /\ \A j \in 1..n : sorted_rows[j] = rows_in_window[f[j]]
              /\ \A i, j \in 1..n : i < j =>
                    LET ki == Instant(sorted_rows[i].resolve_datetime)
                        kj == Instant(sorted_rows[j].resolve_datetime)
                    IN  /\ ki <= kj
                        /\ ki = kj => f[i] < f[j]
        /\ \A j \in 1..n :
              /\ sheet[j].Hours_Remaining = sorted_rows[j].hours_remaining
              /\ sheet[j].Resolve_DateTime[1] = sorted_rows[j].resolve_datetime.local

\* C10 witness: an export of three rows, two of them at the same instant,
\* whose input order is not ascending.
C10_Witness ==
    /\ pc = "done"
    /\ Len(sheet) = 3
    /\ \E i, j \in DOMAIN rows_in_window :
          /\ i < j
          /\ Instant(rows_in_window[i].resolve_datetime)
                = Instant(rows_in_window[j].resolve_datetime)
    /\ \E i, j \in DOMAIN rows_in_window :
          /\ i < j
          /\ Instant(rows_in_window[i].resolve_datetime)
                > Instant(rows_in_window[j].resolve_datetime)

(***************************************************************************)
(* exclude_by_tags (scanner.py 112-152).                                   *)
(*                                                                         *)
(* A tag as transmitted: id of kind "absent", "int" (a JSON number) or     *)
(* "str" (a numeric JSON string), n its value; slug and label a string,    *)
(* "" when the key is missing.  The tags field of a listing is of kind     *)
(* "absent", "null" or "array".                                            *)
(***************************************************************************)
\* str.lower() on the strings of the model
LowerStr(s) ==
    CASE s = "Sports" -> "sports"
      [] s = "SPORTS" -> "sports"
      [] s = "Crypto" -> "crypto"
      [] s = "NBA"    -> "nba"
      [] OTHER        -> s

NoId == [kind |-> "absent", n |-> 0]

IntId(n) == [kind |-> "int", n |-> n]

StrId(n) == [kind |-> "str", n |-> n]

Tag(id, slug, label) == [id |-> id, slug |-> slug, label |-> label]

\* line 119: the ids that are truthy ('' is not), each through int()
ExclusionIds(tags) == {t.id.n : t \in {x \in tags : x.id.kind # "absent"}}

\* line 120
ExclusionSlugs(tags) == {LowerStr(t.slug) : t \in tags}

\* line 121
ExclusionLabels(tags) == {LowerStr(t.label) : t \in tags}

\* tag_id in exclusion_ids, a set of ints: None and a str are equal to no int
IdIn(tag_id, ids) == tag_id.kind = "int" /\ tag_id.n \in ids

\* lines 140-142
TagMatches(tag, tags) ==
    \/ IdIn(tag.id, ExclusionIds(tags))
    \/ LowerStr(tag.slug) \in ExclusionSlugs(tags)
    \/ LowerStr(tag.label) \in ExclusionLabels(tags)

RECURSIVE MatchedTags(_, _)
\* matched_tags of lines 132-144
MatchedTags(market_tags, tags) ==
    IF market_tags = <<>> THEN <<>>
    ELSE (IF TagMatches(Head(market_tags), tags) THEN <<Head(market_tags)>> ELSE <<>>)
             \o MatchedTags(Tail(market_tags), tags)

\* one iteration of the loop of lines 126-150; iterating tags that are None
\* is a TypeError
TagVerdict(m, tags) ==
    IF m.tags.kind = "null"
    THEN [verdict |-> "raise", exc |-> "TypeError", matched |-> <<>>]
    ELSE LET matched == MatchedTags(m.tags.elems, tags) IN
         [verdict |-> IF matched # <<>> THEN "excluded" ELSE "kept",
          exc |-> "none", matched |-> matched]

RECURSIVE TagsRaise(_, _)
TagsRaise(ms, tags) ==
    IF ms = <<>> THEN "none"
    ELSE LET v == TagVerdict(Head(ms), tags) IN
         IF v.verdict = "raise" THEN v.exc ELSE TagsRaise(Tail(ms), tags)

RECURSIVE TagsFiltered(_, _)
TagsFiltered(ms, tags) ==
    IF ms = <<>> THEN <<>>
    ELSE (IF TagVerdict(Head(ms), tags).verdict = "kept" THEN <<Head(ms)>> ELSE <<>>)
             \o TagsFiltered(Tail(ms), tags)

RECURSIVE TagsExcluded(_, _)
\* each excluded market with its _matched_tags
TagsExcluded(ms, tags) ==
    IF ms = <<>> THEN <<>>
    ELSE LET v == TagVerdict(Head(ms), tags) IN
         (IF v.verdict = "excluded"
          THEN <<[market |-> Head(ms), matched_tags |-> v.matched]>> ELSE <<>>)
             \o TagsExcluded(Tail(ms), tags)

\* main, lines 544-548: after_tags, excluded_by_tags =
\*     exclude_by_tags(markets, exclusion_tags)
ExcludeByTags ==
    /\ pc = "tags"
    /\ LET e == TagsRaise(markets, exclusion_tags) IN
       IF e # "none"
       THEN /\ pc' = "raised"
            /\ raised' = Raised(e, "exclude_by_tags")
            /\ UNCHANGED <<after_tags, excluded_by_tags>>
       ELSE /\ pc' = "keywords"
            /\ after_tags' = TagsFiltered(markets, exclusion_tags)
            /\ excluded_by_tags' = TagsExcluded(markets, exclusion_tags)
            /\ UNCHANGED raised
    /\ UNCHANGED fetchVars
    /\ UNCHANGED <<exclusion_tags, markets, after_keywords, excluded_by_keywords,
                   threshold, final_markets, below_threshold, flattened_rows,
                   window_hours, now, rows_in_window, rows_outside, min_date,
                   max_date, sorted_rows, sheet>>

(***************************************************************************)
(* The exclusion-tag mappings and the batches the tag stage is checked on. *)
(***************************************************************************)
\* what fetch_exclusion_tags (lines 93-99) can store for 'sports': the slug
\* in either case, a label or '', an id as a number, as a string, or ''
SportsTags ==
    {Tag(id, slug, label) : id \in {NoId, IntId(1), StrId(1)},
                            slug \in {"sports", "Sports"},
                            label \in {"", "Sports"}}

CryptoTag == Tag(IntId(2), "crypto", "Crypto")

\* the values of the mapping: none, one, or two of the configured slugs found
ExclusionMappings ==
    {{}} \cup {{t} : t \in SportsTags} \cup {{t, CryptoTag} : t \in SportsTags}

MarketTags ==
    {Tag(id, slug, label) : id \in {NoId, IntId(1), StrId(1), IntId(2)},
                            slug \in {"", "Sports", "nba"},
                            label \in {"", "SPORTS", "NBA"}}

TagsFields ==
    {[kind |-> "absent", elems |-> <<>>], [kind |-> "null", elems |-> <<>>]}
        \cup {[kind |-> "array", elems |-> e] : e \in SeqsUpTo(MarketTags, MaxTags)}

TaggedMarket(i, f) == [BareMarket(i) EXCEPT !.tags = f]

\* representative tag fields, of which the batches of two are made
TagsContext ==
    { [kind |-> "absent", elems |-> <<>>],
      [kind |-> "null", elems |-> <<>>],
      [kind |-> "array", elems |-> <<Tag(NoId, "Sports", "")>>],
      [kind |-> "array", elems |-> <<Tag(NoId, "nba", "NBA")>>] }

TagBatches ==
    {<<>>}
      \cup {<<TaggedMarket(1, f)>> : f \in TagsFields}
      \cup {<<TaggedMarket(1, f), TaggedMarket(2, g)>> : f \in TagsContext, g \in TagsContext}

\* a call of exclude_by_tags on a batch, as main makes it
InitTags ==
    /\ pc = "tags"
    /\ raised = NotRaised
    /\ exclusion_tags \in ExclusionMappings
    /\ markets \in TagBatches
    /\ after_tags = <<>>
    /\ excluded_by_tags = <<>>
    /\ after_keywords = <<>>
    /\ excluded_by_keywords = <<>>
    /\ threshold = PriceScale
    /\ final_markets = <<>>
    /\ below_threshold = <<>>
    /\ flattened_rows = <<>>
    /\ window_hours = MaxWindowHours
    /\ now = 0
    /\ rows_in_window = <<>>
    /\ rows_outside = <<>>
    /\ min_date = None
    /\ max_date = None
    /\ sorted_rows = <<>>
    /\ sheet = <<>>
    /\ NoFetch

NextTags == ExcludeByTags

SpecTags == InitTags /\ [][NextTags]_vars

(***************************************************************************)
(* Properties of the tag stage, checked under SpecTags.                    *)
(***************************************************************************)
TagsReturned == pc = "keywords"

ExcludedByTags(m) ==
    \E i \in DOMAIN excluded_by_tags : excluded_by_tags[i].market.id = m.id

\* the identifiers, short-names and labels of the exclusion tags that have one
ExcludedIdentifiers == {t.id.n : t \in {x \in exclusion_tags : x.id.kind # "absent"}}

ExcludedShortNames == {LowerStr(t.slug) : t \in {x \in exclusion_tags : x.slug # ""}}

ExcludedLabels == {LowerStr(t.label) : t \in {x \in exclusion_tags : x.label # ""}}

\* the tags attached to a listing
AttachedTags(m) == {m.tags.elems[k] : k \in DOMAIN m.tags.elems}

\* C8: a listing is excluded iff one of its attached tags has an identifier
\* in the excluded-identifier set, or a lower-cased short-name in the
\* excluded short-name set, or a lower-cased label in the excluded-label
\* set; a listing with no attached tags is never excluded, and with an
\* empty mapping no listing is excluded.
C8_TagExclusion ==
    TagsReturned =>
        \A i \in DOMAIN markets :
            LET m == markets[i] IN
            ExcludedByTags(m) <=>
                \E t \in AttachedTags(m) :
                    \/ t.id.kind # "absent" /\ t.id.n \in ExcludedIdentifiers
                    \/ t.slug # "" /\ LowerStr(t.slug) \in ExcludedShortNames
                    \/ t.label # "" /\ LowerStr(t.label) \in ExcludedLabels

(***************************************************************************)
(* exclude_by_keywords (scanner.py 155-196).  Searched text is a tuple of  *)
(* characters; a missing question, category or subcategory is the empty    *)
(* text.  The event of a listing is of kind "absent", "null", "dict" (an   *)
(* object, title its title or empty) or "string" (a bare title).           *)
(***************************************************************************)
\* str.lower() on one character
LowerCh(c) ==
    CASE c = "A" -> "a"
      [] c = "B" -> "b"
      [] c = "C" -> "c"
      [] c = "D" -> "d"
      [] c = "E" -> "e"
      [] c = "F" -> "f"
      [] c = "G" -> "g"
      [] c = "H" -> "h"
      [] c = "I" -> "i"
      [] c = "J" -> "j"
      [] c = "K" -> "k"
      [] c = "L" -> "l"
      [] c = "M" -> "m"
      [] c = "N" -> "n"
      [] c = "O" -> "o"
      [] c = "P" -> "p"
      [] c = "Q" -> "q"
      [] c = "R" -> "r"
      [] c = "S" -> "s"
      [] c = "T" -> "t"
      [] c = "U" -> "u"
      [] c = "V" -> "v"
      [] c = "W" -> "w"
      [] c = "X" -> "x"
      [] c = "Y" -> "y"
      [] c = "Z" -> "z"
      [] OTHER -> c

Lower(text) == [i \in DOMAIN text |-> LowerCh(text[i])]

\* lines 161-169
esports_keywords ==
    << <<"e", "s", "p", "o", "r", "t", "s">>,
       <<"c", "s", "2">>,
       <<"c", "s", ":", "g", "o">>,
       <<"d", "o", "t", "a">>,
       <<"l", "e", "a", "g", "u", "e", " ", "o", "f", " ", "l", "e", "g", "e", "n", "d", "s">>,
       <<"v", "a", "l", "o", "r", "a", "n", "t">>,
       <<"o", "v", "e", "r", "w", "a", "t", "c", "h">> >>

\* keyword in searchable_text
IsSubstring(keyword, text) ==
    \E i \in 0..(Len(text) - Len(keyword)) :
        SubSeq(text, i + 1, i + Len(keyword)) = keyword

\* line 177: the title is read only from an event that is a dict
KeywordEventTitle(event) == IF event.kind = "dict" THEN Lower(event.title) ELSE <<>>

\* lines 176-182
SearchableText(m) ==
    Lower(m.question) \o <<" ">> \o KeywordEventTitle(m.event) \o <<" ">>
        \o Lower(m.category) \o <<" ">> \o Lower(m.subcategory)

RECURSIVE MatchedKeywords(_, _)
\* lines 185-188
MatchedKeywords(keywords, text) ==
    IF keywords = <<>> THEN <<>>
    ELSE (IF IsSubstring(Head(keywords), text) THEN <<Head(keywords)>> ELSE <<>>)
             \o MatchedKeywords(Tail(keywords), text)

RECURSIVE KeywordsFiltered(_)
KeywordsFiltered(ms) ==
    IF ms = <<>> THEN <<>>
    ELSE (IF MatchedKeywords(esports_keywords, SearchableText(Head(ms))) = <<>>
          THEN <<Head(ms)>> ELSE <<>>) \o KeywordsFiltered(Tail(ms))

RECURSIVE KeywordsExcluded(_)
\* each excluded market with its _matched_keywords
KeywordsExcluded(ms) ==
    IF ms = <<>> THEN <<>>
    ELSE LET k == MatchedKeywords(esports_keywords, SearchableText(Head(ms))) IN
         (IF k # <<>> THEN <<[market |-> Head(ms), matched_keywords |-> k]>> ELSE <<>>)
             \o KeywordsExcluded(Tail(ms))

\* main, lines 550-554: after_keywords, excluded_by_keywords =
\*     exclude_by_keywords(after_tags)
ExcludeByKeywords ==
    /\ pc = "keywords"
    /\ after_keywords' = KeywordsFiltered(after_tags)
    /\ excluded_by_keywords' = KeywordsExcluded(after_tags)
    /\ pc' = "threshold"
    /\ UNCHANGED fetchVars
    /\ UNCHANGED <<raised, exclusion_tags, markets, after_tags, excluded_by_tags,
                   threshold, final_markets, below_threshold, flattened_rows,
                   window_hours, now, rows_in_window, rows_outside, min_date,
                   max_date, sorted_rows, sheet>>

(***************************************************************************)
(* The batches the keyword stage is checked on.                            *)
(***************************************************************************)
Questions ==
    { <<>>, <<"W", "h", "o", " ", "w", "i", "n", "s", "?">>, <<"D", "o", "t", "a", " ", "2">>, <<"t", "o", "p", " ", "l", "e", "a", "g", "u", "e", " ", "o", "f">> }

Events ==
    { [kind |-> "absent", title |-> <<>>],
      [kind |-> "null", title |-> <<>>],
      [kind |-> "dict", title |-> <<>>],
      [kind |-> "dict", title |-> <<"L", "e", "g", "e", "n", "d", "s", " ", "c", "u", "p">>],
      [kind |-> "dict", title |-> <<"V", "a", "l", "o", "r", "a", "n", "t">>],
      [kind |-> "string", title |-> <<"D", "o", "t", "a", " ", "f", "i", "n", "a", "l", "s">>],
      [kind |-> "string", title |-> <<"V", "o", "t", "e">>] }

Categories == { <<>>, <<"E", "s", "p", "o", "r", "t", "s">>, <<"P", "o", "l", "i", "t", "i", "c", "s">> }

Subcategories == { <<>>, <<"C", "S", "2">> }

TextMarket(i, q, e, c, sc) ==
    [BareMarket(i) EXCEPT !.question = q, !.event = e, !.category = c,
                          !.subcategory = sc]

\* representative listings, of which the batches of two are made
KeywordContext ==
    { TextMarket(0, <<"W", "h", "o", " ", "w", "i", "n", "s", "?">>, [kind |-> "absent", title |-> <<>>], <<>>, <<>>),
      TextMarket(0, <<"t", "o", "p", " ", "l", "e", "a", "g", "u", "e", " ", "o", "f">>, [kind |-> "dict", title |-> <<"L", "e", "g", "e", "n", "d", "s", " ", "c", "u", "p">>], <<>>, <<>>),
      TextMarket(0, <<>>, [kind |-> "absent", title |-> <<>>], <<"E", "s", "p", "o", "r", "t", "s">>, <<>>) }

KeywordBatches ==
    {<<>>}
      \cup {<<TextMarket(1, q, e, c, sc)>> :
                q \in Questions, e \in Events, c \in Categories, sc \in Subcategories}
      \cup {<<[a EXCEPT !.id = 1], [b EXCEPT !.id = 2]>> :
                a \in KeywordContext, b \in KeywordContext}

\* a call of exclude_by_keywords on a batch, as main makes it
InitKeywords ==
    /\ pc = "keywords"
    /\ raised = NotRaised
    /\ exclusion_tags = {}
    /\ markets = <<>>
    /\ after_tags \in KeywordBatches
    /\ excluded_by_tags = <<>>
    /\ after_keywords = <<>>
    /\ excluded_by_keywords = <<>>
    /\ threshold = PriceScale
    /\ final_markets = <<>>
    /\ below_threshold = <<>>
    /\ flattened_rows = <<>>
    /\ window_hours = MaxWindowHours
    /\ now = 0
    /\ rows_in_window = <<>>
    /\ rows_outside = <<>>
    /\ min_date = None
    /\ max_date = None
    /\ sorted_rows = <<>>
    /\ sheet = <<>>
    /\ NoFetch

NextKeywords == ExcludeByKeywords

SpecKeywords == InitKeywords /\ [][NextKeywords]_vars

(***************************************************************************)
(* Properties of the keyword stage, checked under SpecKeywords.            *)
(***************************************************************************)
KeywordsReturned == pc = "threshold"

\* the text of a listing: its question, the title of its parent event (the
\* one export_to_xlsx reports as Event_Title), its category and subcategory
ListingText(m) ==
    m.question \o <<" ">> \o EventTitle(m.event) \o <<" ">> \o m.category
        \o <<" ">> \o m.subcategory

\* keyword occurs in text, letter case ignored
OccursIgnoringCase(keyword, text) ==
    \E i \in 0..(Len(text) - Len(keyword)) :
        \A j \in 1..Len(keyword) : LowerCh(text[i + j]) = LowerCh(keyword[j])

HasKeyword(m) ==
    \E k \in DOMAIN esports_keywords :
        OccursIgnoringCase(esports_keywords[k], ListingText(m))

RECURSIVE IdsWhere(_, _)
\* the ids of the listings of ms that have a keyword (hit) or have none, in order
IdsWhere(ms, hit) ==
    IF ms = <<>> THEN <<>>
    ELSE (IF HasKeyword(Head(ms)) = hit THEN <<Head(ms).id>> ELSE <<>>)
             \o IdsWhere(Tail(ms), hit)

\* C9: a listing is excluded iff a configured keyword is a case-insensitive
\* substring of the text formed from its question, parent-event title,
\* category and subcategory; every other listing survives, in input order.
C9_KeywordExclusion ==
    KeywordsReturned =>
        /\ [i \in DOMAIN excluded_by_keywords |-> excluded_by_keywords[i].market.id]
              = IdsWhere(after_tags, TRUE)
        /\ [i \in DOMAIN after_keywords |-> after_keywords[i].id]
              = IdsWhere(after_tags, FALSE)

(***************************************************************************)
(* The whole pipeline of main, lines 544-602: the six stages in sequence   *)
(* on the batch fetch_all_markets returned.  The listings of a batch vary  *)
(* in every field a stage decodes.                                         *)
(***************************************************************************)
PipelineTags ==
    { [kind |-> "absent", elems |-> <<>>],
      [kind |-> "null", elems |-> <<>>],
      [kind |-> "array", elems |-> <<Tag(NoId, "Sports", "")>>] }

PipelineQuestions ==
    { <<"W", "h", "o", " ", "w", "i", "n", "s", "?">>,
      <<"D", "o", "t", "a", " ", "2">> }

PipelinePrices ==
    { [o |-> Arr(<<"Yes", "No">>), p |-> Arr(<<Num(PriceScale), Num(0)>>)],
      [o |-> Arr(<<"A", "B">>), p |-> Arr(<<Num(PriceScale), Num(PriceScale)>>)],
      [o |-> Arr(<<"A">>), p |-> Arr(<<Num(0)>>)],
      [o |-> Arr(<<"A">>), p |-> [kind |-> "null", elems |-> <<>>]] }

PipelineDates ==
    { [kind |-> "absent", local |-> 0, offset |-> 0],
      [kind |-> "naive", local |-> 0, offset |-> 0],
      [kind |-> "zulu", local |-> 1, offset |-> 0],
      [kind |-> "zulu", local |-> MaxTick + MaxWindowHours * TicksPerHour, offset |-> 0] }

FullMarket(i, t, q, c, d) ==
    [BareMarket(i) EXCEPT !.tags = t, !.question = q, !.outcomes = c.o,
                          !.outcomePrices = c.p, !.endDate = d,
                          !.slug = "some-market"]

PipelineListings ==
    {FullMarket(0, t, q, c, d) :
        t \in PipelineTags, q \in PipelineQuestions, c \in PipelinePrices,
        d \in PipelineDates}

\* representative listings, of which the batches of two are made: one that
\* reaches the file, one that the price stage drops, one whose end date
\* stops the window stage
PipelineContext ==
    {FullMarket(0, [kind |-> "absent", elems |-> <<>>],
                <<"W", "h", "o", " ", "w", "i", "n", "s", "?">>, c, d) :
        c \in {x \in PipelinePrices : x.p.kind = "array"},
        d \in {x \in PipelineDates : x.kind # "absent"}}

PipelineBatches ==
    {<<>>}
      \cup {<<[a EXCEPT !.id = 1]>> : a \in PipelineListings}
      \cup {<<[a EXCEPT !.id = 1], [b EXCEPT !.id = 2]>> :
                a \in PipelineContext, b \in PipelineContext}

\* main at line 544: the exclusion tags and the markets are fetched
InitPipeline ==
    /\ pc = "tags"
    /\ raised = NotRaised
    /\ exclusion_tags \in {{}, {Tag(IntId(1), "sports", "Sports")}}
    /\ markets \in PipelineBatches
    /\ after_tags = <<>>
    /\ excluded_by_tags = <<>>
    /\ after_keywords = <<>>
    /\ excluded_by_keywords = <<>>
    /\ threshold \in Thresholds
    /\ final_markets = <<>>
    /\ below_threshold = <<>>
    /\ flattened_rows = <<>>
    /\ window_hours \in 1..MaxWindowHours
    /\ now = 0
    /\ rows_in_window = <<>>
    /\ rows_outside = <<>>
    /\ min_date = None
    /\ max_date = None
    /\ sorted_rows = <<>>
    /\ sheet = <<>>
    /\ NoFetch

NextPipeline ==
    \/ ExcludeByTags
    \/ ExcludeByKeywords
    \/ ApplyPriceThreshold
    \/ FlattenMultiOutcomeMarkets
    \/ ApplyTimeWindow
    \/ ExportToXlsx
    \/ NoMarketsFound

SpecPipeline == InitPipeline /\ [][NextPipeline]_vars

\* the run reached the end of main: success (the file is saved) or no data
Success == pc = "done"

NoData == pc = "nodata"

\* the run left main through an exception no stage handled
Crashed == pc = "raised"

FileWritten == sheet # <<>>

\* the stages in main's order, and the stage main is about to run
StageOrder == <<"tags", "keywords", "threshold", "flatten", "window", "export">>

StageNo(p) ==
    IF \E k \in DOMAIN StageOrder : StageOrder[k] = p
    THEN CHOOSE k \in DOMAIN StageOrder : StageOrder[k] = p
    ELSE Len(StageOrder) + 1

\* the outputs of the stage numbered k are still those of a stage not run
NotRun(k) ==
    CASE k = 1 -> after_tags = <<>> /\ excluded_by_tags = <<>>
      [] k = 2 -> after_keywords = <<>> /\ excluded_by_keywords = <<>>
      [] k = 3 -> final_markets = <<>> /\ below_threshold = <<>>
      [] k = 4 -> flattened_rows = <<>>
      [] k = 5 -> rows_in_window = <<>> /\ rows_outside = <<>>
      [] k = 6 -> sorted_rows = <<>> /\ sheet = <<>>

\* every stage from the one main is about to run onwards has not run; a
\* run that crashed stopped there, so nothing after the crash has run either
InOrder ==
    /\ pc \in {"tags", "keywords", "threshold", "flatten", "window", "export"}
          => \A k \in StageNo(pc)..Len(StageOrder) : NotRun(k)
    /\ Crashed => sheet = <<>> /\ sorted_rows = <<>>

\* export_to_xlsx is called only with rows, and the two endings are as main
\* reports them
EndingsAsReported ==
    /\ FileWritten => rows_in_window # <<>> /\ Success
    /\ Success => FileWritten /\ Len(sheet) = Len(rows_in_window)
    /\ NoData => rows_in_window = <<>> /\ ~FileWritten

\* C11: a pipeline run ends in exactly one of two outcomes, no data (zero
\* rows in the window, no file) or success (at least one row, the file
\* written); it never ends any other way, export never receives an empty
\* row sequence, and the stages run in main's order.
C11_TwoOutcomes ==
    /\ ~Crashed
    /\ EndingsAsReported
    /\ InOrder

(***************************************************************************)
(* fetch_all_markets, lines 15-72.  The page size (100 at line 26) is      *)
(* scaled down to limit; the data source holds fewer than MaxPages full    *)
(* pages, so the request numbered MaxPages, if it is sent, is answered by  *)
(* a short or empty page or fails; a cap goes up to MaxCap.                *)
(***************************************************************************)
limit == 3

MaxPages == 4

MaxCap == 10

\* a request that raised a RequestException (lines 41-44, caught at line 68)
Failure == [ok |-> FALSE, markets |-> <<>>]

\* response.json() of a request at offset o answered with k listings
Page(o, k) == [ok |-> TRUE, markets |-> [i \in 1..k |-> BareMarket(o + i)]]

Responses(o) == {Failure} \cup {Page(o, k) : k \in 0..limit}

MaxMarkets == {None} \cup {Some(c) : c \in 0..MaxCap}

\* line 56: max_markets and len(all_markets) >= max_markets
CapReached(all, cap) == cap # None /\ cap[1] # 0 /\ Len(all) >= cap[1]

ShortPageOrFull(page) == Len(page) <= limit

\* line 62: len(markets) < limit
ShortPage(page) == Len(page) < limit

\* one iteration of the loop of lines 28-70; on leaving the loop, line 72
\* returns all_markets to main (line 540)
FetchPage ==
    /\ pc = "fetch"
    /\ Len(requests) < MaxPages
    /\ \E resp \in Responses(offset) :
         LET extended == all_markets \o resp.markets
             Return(result) == /\ all_markets' = result
                               /\ markets' = result
                               /\ pc' = "tags"
                               /\ UNCHANGED offset
         IN  /\ Len(requests) + 1 = MaxPages => ~resp.ok \/ ShortPage(resp.markets)
             /\ requests' = Append(requests, offset)
             /\ pages' = Append(pages, resp)
             /\ IF ~resp.ok \/ resp.markets = <<>>
                THEN Return(all_markets)
                ELSE IF CapReached(extended, max_markets)
                THEN Return(SubSeq(extended, 1, max_markets[1]))
                ELSE IF ShortPage(resp.markets)
                THEN Return(extended)
                ELSE /\ all_markets' = extended
                     /\ offset' = offset + limit
                     /\ UNCHANGED <<pc, markets>>
    /\ UNCHANGED <<raised, exclusion_tags, after_tags, excluded_by_tags,
                   after_keywords, excluded_by_keywords, threshold, final_markets,
                   below_threshold, flattened_rows, window_hours, now,
                   rows_in_window, rows_outside, min_date, max_date, sorted_rows,
                   sheet, max_markets>>

\* a call of fetch_all_markets, with or without a cap
InitFetch ==
    /\ pc = "fetch"
    /\ raised = NotRaised
    /\ exclusion_tags = {}
    /\ markets = <<>>
    /\ after_tags = <<>>
    /\ excluded_by_tags = <<>>
    /\ after_keywords = <<>>
    /\ excluded_by_keywords = <<>>
    /\ threshold = PriceScale
    /\ final_markets = <<>>
    /\ below_threshold = <<>>
    /\ flattened_rows = <<>>
    /\ window_hours = MaxWindowHours
    /\ now = 0
    /\ rows_in_window = <<>>
    /\ rows_outside = <<>>
    /\ min_date = None
    /\ max_date = None
    /\ sorted_rows = <<>>
    /\ sheet = <<>>
    /\ max_markets \in MaxMarkets
    /\ offset = 0
    /\ all_markets = <<>>
    /\ requests = <<>>
    /\ pages = <<>>

NextFetch == FetchPage

\* the loop keeps running: every request returns or fails within its timeout
SpecFetch == InitFetch /\ [][NextFetch]_vars /\ WF_vars(FetchPage)

(***************************************************************************)
(* Properties of fetch_all_markets.                                        *)
(***************************************************************************)
FetchReturned == pc = "tags" /\ requests # <<>>

RECURSIVE ListingsOf(_, _)
\* the listings of the first n responses, in the order they were received
ListingsOf(ps, n) == IF n = 0 THEN <<>> ELSE ListingsOf(ps, n - 1) \o ps[n].markets

Prefix(s, n) == SubSeq(s, 1, Min2(n, Len(s)))

\* the response numbered j ends the pagination under the cap: it failed, is
\* empty or short, or brings the count of listings received to the cap
Stops(j, cap) ==
    \/ ~pages[j].ok
    \/ Len(pages[j].markets) < limit
    \/ cap # None /\ Len(ListingsOf(pages, j)) >= cap[1]

\* pagination as the claim describes it, under the cap given: one request
\* per page at offsets 0, limit, 2*limit, ..., none after a response
\* that stops, none repeated; the call returns at the first response that
\* stops, with every listing received, in order, cut to the cap
PaginatesUnder(cap) ==
    /\ Len(pages) = Len(requests)
    /\ \A j \in DOMAIN requests : requests[j] = (j - 1) * limit
    /\ \A j \in DOMAIN pages : j < Len(pages) => ~Stops(j, cap)
    /\ pc = "fetch" => /\ \A j \in DOMAIN pages : ~Stops(j, cap)
                       /\ all_markets = ListingsOf(pages, Len(pages))
    /\ FetchReturned =>
         /\ Stops(Len(pages), cap)
         /\ markets = IF cap = None
                      THEN ListingsOf(pages, Len(pages))
                      ELSE Prefix(ListingsOf(pages, Len(pages)), cap[1])

EffectiveCap == IF max_markets = Some(0) THEN None ELSE max_markets

C12_WitnessCap ==
    /\ FetchReturned
    /\ max_markets # None
    /\ Len(requests) = 2
    /\ Len(markets) = max_markets[1]
    /\ Len(ListingsOf(pages, 2)) > Len(markets)

==========================================================================
